---- MODULE Spec2Model ----
(***************************************************************************)
(* A model of the ecfft-group library: polynomials with coefficients in a  *)
(* group G over a prime field F (group_polynomial.rs), Vandermonde         *)
(* left-multiplication (vandermonde.rs), 2x2 matrices over F               *)
(* (utils/matrix.rs) and the ECFFT precomputation / extend / evaluate.     *)
(*                                                                         *)
(* The library is a set of synchronous functions.  A behaviour of the      *)
(* model is one call: Init draws the function and its arguments, and the   *)
(* actions run the function's body (one action per loop iteration where    *)
(* the loop's intermediate state matters) until it returns or panics.      *)
(*   fn     the function called                                            *)
(*   pc     "call" | "loop" | "done" | "panic"                             *)
(*   args   the arguments (borrowed immutably by the callee)               *)
(*   locals the callee's local variables                                   *)
(*   ret    the returned value (Ok) or the panic                           *)
(***************************************************************************)
EXTENDS Integers, Sequences, FiniteSets, TLC

VARIABLES fn, pc, args, locals, ret

vars == <<fn, pc, args, locals, ret>>

(***************************************************************************)
(* Bounds of the model.                                                    *)
(***************************************************************************)
MaxLen == 3      \* longest coefficient / input vector
MaxElem == 2     \* group elements drawn as inputs: 0..MaxElem and -1
MaxPt == 3       \* small evaluation points near zero: -MaxPt..MaxPt
MaxN == 9        \* smallest_range is called with n in -MaxN..MaxN

(***************************************************************************)
(* Results: a function either returns a value or panics.                   *)
(***************************************************************************)
Ok(v) == [tag |-> "ok", val |-> v]
Panic(why) == [tag |-> "panic", why |-> why]
NoRet == [tag |-> "none"]
NoLocals == [none |-> TRUE]

(***************************************************************************)
(* The field F = F_17 (utils/f17.rs) and the group G = F_17, whose scalar  *)
(* field is itself (impl MyGroup for F17).                                 *)
(***************************************************************************)
P == 17
F == 0..(P - 1)

FAdd(a, b) == (a + b) % P
FNeg(a) == (P - a) % P
FSub(a, b) == (a + (P - b)) % P
FMul(a, b) == (a * b) % P

RECURSIVE FPow(_, _)
FPow(a, e) == IF e = 0 THEN 1 ELSE FMul(FPow(a, e - 1), a)

\* Field inversion; None for zero (ark-ff's inverse() returns Option).
FInverse(a) == IF a = 0 THEN Panic("inverse of zero") ELSE Ok(FPow(a, P - 2))

GZero == 0
GAdd(x, y) == FAdd(x, y)
GNeg(x) == FNeg(x)
GSub(x, y) == FSub(x, y)
\* x * s : a group element times a scalar of F
GMul(x, s) == FMul(x, s)

(***************************************************************************)
(* Machine integers.                                                       *)
(***************************************************************************)
I32Max == 2147483647
I32Min == (-I32Max) - 1

RECURSIVE Pow2ModP(_)
\* 2^e mod P, by repeated squaring
Pow2ModP(e) ==
    IF e = 0 THEN 1
    ELSE IF e % 2 = 0
    THEN LET h == Pow2ModP(e \div 2) IN (h * h) % P
    ELSE (2 * Pow2ModP(e - 1)) % P

\* `-x` on an i32: panics when overflow checks are on (debug builds) and
\* wraps otherwise; only i32::MIN overflows.
NegI32(x, overflow_checks) ==
    IF x = I32Min
    THEN IF overflow_checks THEN Panic("attempt to negate with overflow")
         ELSE Ok(I32Min)
    ELSE Ok(-x)

\* F::from(x as u128) for an i32 x: the cast sign-extends, so a negative x
\* becomes 2^128 + x, which F::from then reduces modulo P.
FromI32AsU128(x) == IF x >= 0 THEN x % P ELSE (Pow2ModP(128) + x) % P

\* F::from(x) for an i32 x: the absolute value reduced, negated for x < 0.
FromI32(x) == IF x >= 0 THEN x % P ELSE FNeg((((-(x + 1)) % P) + 1) % P)

(***************************************************************************)
(* DenseGroupPolynomial (group_polynomial.rs).  coeffs[i] of the source is *)
(* coeffs[i+1] here: sequences are indexed from 1.                         *)
(***************************************************************************)
is_zero(coeffs) ==
    Len(coeffs) = 0 \/ \A i \in 1..Len(coeffs) : coeffs[i] = GZero

RECURSIVE horner_fold(_, _, _)
\* a bug: fold instead of rfold, the first coefficient is folded first
horner_fold(poly_coeffs, point, i) ==
    IF i > Len(poly_coeffs) THEN GZero
    ELSE GAdd(GMul(horner_fold(poly_coeffs, point, i + 1), point),
              poly_coeffs[Len(poly_coeffs) + 1 - i])

RECURSIVE horner_rfold(_, _, _)
\* rfold over poly_coeffs[i..]: the last coefficient is folded first
horner_rfold(poly_coeffs, point, i) ==
    IF i > Len(poly_coeffs) THEN GZero
    ELSE GAdd(GMul(horner_rfold(poly_coeffs, point, i + 1), point), poly_coeffs[i])

horner_evaluate(poly_coeffs, point) == horner_rfold(poly_coeffs, point, 1)

RECURSIVE horner_neg_rfold(_, _, _)
horner_neg_rfold(poly_coeffs, neg_point, i) ==
    IF i > Len(poly_coeffs) THEN GZero
    ELSE GAdd(GMul(GNeg(horner_neg_rfold(poly_coeffs, neg_point, i + 1)), neg_point),
              poly_coeffs[i])

horner_evaluate_neg(poly_coeffs, neg_point) == horner_neg_rfold(poly_coeffs, neg_point, 1)

internal_evaluate(coeffs, point) == horner_evaluate(coeffs, point)

evaluate(coeffs, point) ==
    IF is_zero(coeffs) THEN GZero
    ELSE IF point = 0 THEN coeffs[1]
    ELSE internal_evaluate(coeffs, point)

evaluate_small(coeffs, point, overflow_checks) ==
    IF is_zero(coeffs) THEN Ok(GZero)
    ELSE IF point = 0 THEN Ok(coeffs[1])
    ELSE IF point < 0
    THEN LET neg == NegI32(point, overflow_checks) IN
         IF neg.tag = "panic" THEN neg
         ELSE Ok(horner_evaluate_neg(coeffs, FromI32AsU128(neg.val)))
    ELSE Ok(horner_evaluate(coeffs, FromI32AsU128(point)))

\* a bug: the assertion on the last coefficient is missing
degree_no_assert(coeffs) ==
    IF is_zero(coeffs) THEN Ok(0) ELSE Ok(Len(coeffs) - 1)

degree(coeffs) ==
    IF is_zero(coeffs) THEN Ok(0)
    ELSE IF coeffs[Len(coeffs)] # GZero THEN Ok(Len(coeffs) - 1)
    ELSE Panic("assertion failed: last coefficient is zero")

RECURSIVE range_push(_, _, _)
\* for i in min..=max { v.push(i) }
range_push(v, i, max) == IF i > max THEN v ELSE range_push(Append(v, i), i + 1, max)

\* a bug: the range starts at -floor(n/2)
smallest_range_from_half(n) ==
    IF ~(n >= 0) THEN Panic("assertion failed: n >= 0")
    ELSE IF n = 0 THEN Ok(<<>>)
    ELSE LET min == -(n \div 2)
             max == n \div 2
         IN Ok(range_push(<<>>, min, max))

smallest_range(n) ==
    IF ~(n >= 0) THEN Panic("assertion failed: n >= 0")
    ELSE IF n = 0 THEN Ok(<<>>)
    ELSE LET min == -((n - 1) \div 2)
             max == n \div 2
         IN Ok(range_push(<<>>, min, max))

(***************************************************************************)
(* Inputs.                                                                 *)
(***************************************************************************)
Elems == (0..MaxElem) \cup {P - 1}
Vectors(n) == [1..n -> Elems]
CoeffVectors == UNION {Vectors(n) : n \in 0..MaxLen}
SmallPoints == {I32Min, I32Min + 1, I32Max - 1, I32Max} \cup ((-MaxPt)..MaxPt)

(***************************************************************************)
(* Calls of the polynomial functions.                                      *)
(***************************************************************************)
InitPoly ==
    /\ pc = "call"
    /\ locals = NoLocals
    /\ ret = NoRet
    /\ \/ /\ fn = "evaluate"
          /\ args \in [coeffs : CoeffVectors, point : F]
       \/ /\ fn = "evaluate_small"
          /\ args \in [coeffs : CoeffVectors, point : SmallPoints,
                       overflow_checks : BOOLEAN]
       \/ /\ fn = "degree"
          /\ args \in [coeffs : CoeffVectors]
       \/ /\ fn = "smallest_range"
          /\ args \in [n : (-MaxN)..MaxN]

Return(r) ==
    /\ ret' = r
    /\ pc' = IF r.tag = "ok" THEN "done" ELSE "panic"
    /\ UNCHANGED <<fn, args, locals>>

Evaluate ==
    /\ fn = "evaluate" /\ pc = "call"
    /\ Return(Ok(evaluate(args.coeffs, args.point)))

EvaluateSmall ==
    /\ fn = "evaluate_small" /\ pc = "call"
    /\ Return(evaluate_small(args.coeffs, args.point, args.overflow_checks))

Degree ==
    /\ fn = "degree" /\ pc = "call"
    /\ Return(degree(args.coeffs))

SmallestRange ==
    /\ fn = "smallest_range" /\ pc = "call"
    /\ Return(smallest_range(args.n))

NextPoly == Evaluate \/ EvaluateSmall \/ Degree \/ SmallestRange

SpecPoly == InitPoly /\ [][NextPoly]_vars

(***************************************************************************)
(* VandermondeMatrix::left_multiply (vandermonde.rs).  One action per      *)
(* iteration of the outer loop over the columns j.                         *)
(***************************************************************************)
MaxRows == 2       \* rows of a general Vandermonde matrix
MaxSmallRows == 4  \* rows of a small-domain Vandermonde matrix
MaxCols == 3       \* nb_cols
MaxVec == 1        \* entries of the input row vector: 0..MaxVec

\* every entry of the column multiplied by its point twice
mul_col_twice(col, points, nb_rows) ==
    [i \in 1..nb_rows |-> GMul(GMul(col[i], points[i]), points[i])]

\* for i in 0..nb_rows { col[i] *= points[i] }
mul_col(col, points, nb_rows) == [i \in 1..nb_rows |-> GMul(col[i], points[i])]

RECURSIVE add_rows(_, _, _, _)
\* for i in from..to { acc += col[i] }   (1-based, inclusive)
add_rows(acc, col, from, to) ==
    IF from > to THEN acc ELSE add_rows(GAdd(acc, col[from]), col, from + 1, to)

\* the length check passes whenever the vector is at least as long as points
left_multiply_enter_at_least(points, vector) ==
    IF Len(points) > Len(vector)
    THEN Panic("assertion failed: points.len() == vector.len()")
    ELSE Ok([nb_rows |-> Len(points), col |-> vector, res |-> <<>>, j |-> 0])

\* assert_eq!(self.points.len(), vector.len()) and the locals before the loop
left_multiply_enter(points, vector) ==
    IF Len(points) # Len(vector)
    THEN Panic("assertion failed: points.len() == vector.len()")
    ELSE Ok([nb_rows |-> Len(points), col |-> vector, res |-> <<>>, j |-> 0])

\* the body of `for j in 0..self.nb_cols`
left_multiply_iter(points, l) ==
    LET col == IF l.j > 0 THEN mul_col(l.col, points, l.nb_rows) ELSE l.col IN
    IF l.nb_rows = 0
    THEN Panic("index out of bounds: col[0]")
    ELSE Ok([l EXCEPT !.col = col,
                      !.res = Append(l.res, add_rows(col[1], col, 2, l.nb_rows)),
                      !.j = l.j + 1])

RECURSIVE left_multiply_loop(_, _, _)
left_multiply_loop(points, nb_cols, l) ==
    IF l.j >= nb_cols THEN Ok(l.res)
    ELSE LET r == left_multiply_iter(points, l) IN
         IF r.tag = "panic" THEN r ELSE left_multiply_loop(points, nb_cols, r.val)

\* the whole call
left_multiply(points, nb_cols, vector) ==
    LET e == left_multiply_enter(points, vector) IN
    IF e.tag = "panic" THEN e ELSE left_multiply_loop(points, nb_cols, e.val)

(***************************************************************************)
(* small_vandermonde_left_multiply (vandermonde.rs).                       *)
(***************************************************************************)
\* |p| as u128 into F, for the points of smallest_range
abs_to_F(p) == IF p < 0 THEN (-p) % P ELSE p % P

small_enter(vector) ==
    LET nb_rows == Len(vector) IN
    IF ~(nb_rows > 0) THEN Panic("assertion failed: nb_rows > 0")
    ELSE LET range == smallest_range(nb_rows) IN
         Ok([nb_rows |-> nb_rows,
             zero_i |-> (nb_rows - 1) \div 2,
             abs_points |-> [i \in 1..nb_rows |-> abs_to_F(range.val[i])],
             abs_col |-> vector, res |-> <<>>, j |-> 0])

\* the entry of the zero point is multiplied as well
mul_abs_col_all(abs_col, abs_points, nb_rows, zero_i) ==
    [i \in 1..nb_rows |-> GMul(abs_col[i], abs_points[i])]

\* for i in 0..nb_rows { if i != zero_i { abs_col[i] *= abs_points[i] } }
mul_abs_col(abs_col, abs_points, nb_rows, zero_i) ==
    [i \in 1..nb_rows |->
        IF i - 1 # zero_i THEN GMul(abs_col[i], abs_points[i]) ELSE abs_col[i]]

RECURSIVE small_add_rows_no_parity(_, _, _, _, _, _)
\* a bug: the entries of the negative points are subtracted in every column
small_add_rows_no_parity(acc, abs_col, i, nb_rows, zero_i, j) ==
    IF i >= nb_rows - 1 THEN acc
    ELSE LET next == IF i < zero_i /\ j > 0 THEN GSub(acc, abs_col[i + 1])
                     ELSE IF i = zero_i
                          THEN IF j = 0 THEN GAdd(acc, abs_col[i + 1]) ELSE acc
                          ELSE GAdd(acc, abs_col[i + 1])
         IN small_add_rows_no_parity(next, abs_col, i + 1, nb_rows, zero_i, j)

RECURSIVE small_add_rows(_, _, _, _, _, _)
\* for i in 0..nb_rows-1 { res[j] +=/-= abs_col[i] }; i is the source's index
small_add_rows(acc, abs_col, i, nb_rows, zero_i, j) ==
    IF i >= nb_rows - 1 THEN acc
    ELSE LET next == IF i < zero_i /\ j % 2 = 1 THEN GSub(acc, abs_col[i + 1])
                     ELSE IF i = zero_i
                          THEN IF j = 0 THEN GAdd(acc, abs_col[i + 1]) ELSE acc
                          ELSE GAdd(acc, abs_col[i + 1])
         IN small_add_rows(next, abs_col, i + 1, nb_rows, zero_i, j)

\* the single-point special case skips the column without pushing an entry
small_iter_skip_push(l) ==
    LET abs_col == IF l.j > 0
                   THEN mul_abs_col(l.abs_col, l.abs_points, l.nb_rows, l.zero_i)
                   ELSE l.abs_col
    IN IF l.nb_rows = 1 /\ l.j > 0
       THEN [l EXCEPT !.abs_col = abs_col, !.j = l.j + 1]
       ELSE [l EXCEPT !.abs_col = abs_col,
                      !.res = Append(l.res,
                          small_add_rows(abs_col[l.nb_rows], abs_col, 0, l.nb_rows,
                                         l.zero_i, l.j)),
                      !.j = l.j + 1]

\* the body of `for j in 0..nb_cols`
small_iter(l) ==
    LET abs_col == IF l.j > 0
                   THEN mul_abs_col(l.abs_col, l.abs_points, l.nb_rows, l.zero_i)
                   ELSE l.abs_col
        entry == IF l.nb_rows = 1 /\ l.j > 0 THEN GZero
                 ELSE small_add_rows(abs_col[l.nb_rows], abs_col, 0, l.nb_rows,
                                     l.zero_i, l.j)
    IN [l EXCEPT !.abs_col = abs_col, !.res = Append(l.res, entry), !.j = l.j + 1]

RECURSIVE small_loop(_, _)
small_loop(nb_cols, l) ==
    IF l.j >= nb_cols THEN Ok(l.res) ELSE small_loop(nb_cols, small_iter(l))

small_vandermonde_left_multiply(vector, nb_cols) ==
    LET e == small_enter(vector) IN
    IF e.tag = "panic" THEN e ELSE small_loop(nb_cols, e.val)

(***************************************************************************)
(* Calls of the Vandermonde functions.                                     *)
(***************************************************************************)
RowVectors(n) == [1..n -> 0..MaxVec]

InitVand ==
    /\ pc = "call"
    /\ locals = NoLocals
    /\ ret = NoRet
    /\ \/ /\ fn = "left_multiply"
          /\ \E n \in 0..MaxRows, m \in 0..MaxRows :
                args \in [points : Vectors(n), nb_cols : 0..MaxCols,
                          vector : RowVectors(m)]
       \/ /\ fn = "small_vandermonde_left_multiply"
          /\ \E n \in 0..MaxSmallRows :
                args \in [vector : RowVectors(n), nb_cols : 0..MaxCols]

\* the working column is the caller's vector itself, not a copy of it
caller_view_aliased(a, l) ==
    IF "col" \in DOMAIN l THEN [a EXCEPT !.vector = l.col]
    ELSE IF "abs_col" \in DOMAIN l THEN [a EXCEPT !.vector = l.abs_col]
    ELSE a

\* what the caller's arguments hold once the callee's locals are l: the
\* arguments are shared borrows and col / abs_col are vector.to_vec(), so
\* no write of the callee reaches them
caller_view(a, l) == a

\* enter a function body: the entry checks passed and the locals are set,
\* or an entry assertion panicked
Enter(e) ==
    IF e.tag = "panic"
    THEN Return(e)
    ELSE /\ locals' = e.val
         /\ pc' = "loop"
         /\ UNCHANGED <<fn, args, ret>>

\* one loop iteration: new locals, or a panic that leaves the locals as
\* they were when it happened
Iterate(r) ==
    IF r.tag = "panic"
    THEN Return(r)
    ELSE /\ locals' = r.val
         /\ args' = caller_view(args, r.val)
         /\ UNCHANGED <<fn, pc, ret>>

LeftMultiplyEnter ==
    /\ fn = "left_multiply" /\ pc = "call"
    /\ Enter(left_multiply_enter(args.points, args.vector))

LeftMultiplyIter ==
    /\ fn = "left_multiply" /\ pc = "loop"
    /\ locals.j < args.nb_cols
    /\ Iterate(left_multiply_iter(args.points, locals))

LeftMultiplyReturn ==
    /\ fn = "left_multiply" /\ pc = "loop"
    /\ locals.j >= args.nb_cols
    /\ Return(Ok(locals.res))

SmallEnter ==
    /\ fn = "small_vandermonde_left_multiply" /\ pc = "call"
    /\ Enter(small_enter(args.vector))

SmallIter ==
    /\ fn = "small_vandermonde_left_multiply" /\ pc = "loop"
    /\ locals.j < args.nb_cols
    /\ Iterate(Ok(small_iter(locals)))

SmallReturn ==
    /\ fn = "small_vandermonde_left_multiply" /\ pc = "loop"
    /\ locals.j >= args.nb_cols
    /\ Return(Ok(locals.res))

NextVand ==
    \/ LeftMultiplyEnter \/ LeftMultiplyIter \/ LeftMultiplyReturn
    \/ SmallEnter \/ SmallIter \/ SmallReturn

SpecVand == InitVand /\ [][NextVand]_vars

\* a call, once made, runs to its return or panic
SpecVandFair == SpecVand /\ WF_vars(NextVand)

(***************************************************************************)
(* Matrix (utils/matrix.rs): a matrix is <<<<a, b>>, <<c, d>>>>.           *)
(***************************************************************************)
\* a division that returns 0 for a zero divisor
FDiv_total(x, y) == Ok(FMul(x, FPow(y, P - 2)))

\* x / y in F: multiplication by the inverse, which panics for y = 0
FDiv(x, y) ==
    LET inv == FInverse(y) IN
    IF inv.tag = "panic" THEN inv ELSE Ok(FMul(x, inv.val))

\* inverse without the division by the determinant
inverse_no_det(m) ==
    IF FSub(FMul(m[1][1], m[2][2]), FMul(m[1][2], m[2][1])) = 0
    THEN Panic("inverse of zero")
    ELSE Ok(<< <<m[2][2], FNeg(m[1][2])>>, <<FNeg(m[2][1]), m[1][1]>> >>)

\* multiply with the two output entries exchanged
multiply_swapped(m, v) ==
    << GAdd(GMul(v[1], m[2][1]), GMul(v[2], m[2][2])),
       GAdd(GMul(v[1], m[1][1]), GMul(v[2], m[1][2])) >>

\* multiply by the transposed matrix
multiply_transposed(m, v) ==
    << GAdd(GMul(v[1], m[1][1]), GMul(v[2], m[2][1])),
       GAdd(GMul(v[1], m[1][2]), GMul(v[2], m[2][2])) >>

\* a bug: the off-diagonal entries are not negated
inverse_no_neg(m) ==
    LET a == m[1][1]
        b == m[1][2]
        c == m[2][1]
        d == m[2][2]
        det == FSub(FMul(a, d), FMul(b, c))
    IN IF FDiv(d, det).tag = "panic" THEN FDiv(d, det)
       ELSE Ok(<< <<FDiv(d, det).val, FDiv(b, det).val>>,
                  <<FDiv(c, det).val, FDiv(a, det).val>> >>)

inverse(m) ==
    LET a == m[1][1]
        b == m[1][2]
        c == m[2][1]
        d == m[2][2]
        det == FSub(FMul(a, d), FMul(b, c))
    IN IF FDiv(d, det).tag = "panic" THEN FDiv(d, det)
       ELSE Ok(<< <<FDiv(d, det).val, FDiv(FNeg(b), det).val>>,
                  <<FDiv(FNeg(c), det).val, FDiv(a, det).val>> >>)

multiply(m, v) ==
    LET a == m[1][1]
        b == m[1][2]
        c == m[2][1]
        d == m[2][2]
        x == v[1]
        y == v[2]
    IN <<GAdd(GMul(x, a), GMul(y, b)), GAdd(GMul(x, c), GMul(y, d))>>

\* *x is overwritten before *y is computed from it
multiply_in_place_sequential(m, x, y) ==
    LET new_x == GAdd(GMul(x, m[1][1]), GMul(y, m[1][2]))
        new_y == GAdd(GMul(new_x, m[2][1]), GMul(y, m[2][2]))
    IN [x |-> new_x, y |-> new_y]

\* returns the new (*x, *y)
multiply_in_place(m, x, y) ==
    LET a == m[1][1]
        b == m[1][2]
        c == m[2][1]
        d == m[2][2]
        ab == <<GAdd(GMul(x, a), GMul(y, b)), GAdd(GMul(x, c), GMul(y, d))>>
    IN [x |-> ab[1], y |-> ab[2]]

Matrices == {<< <<a, b>>, <<c, d>> >> : a \in Elems, b \in Elems, c \in Elems, d \in Elems}
Pairs == Elems \X Elems

InitMatrix ==
    /\ pc = "call"
    /\ locals = NoLocals
    /\ ret = NoRet
    /\ \/ /\ fn = "inverse"
          /\ args \in [m : Matrices]
       \/ /\ fn = "multiply"
          /\ args \in [m : Matrices, v : Pairs]
       \/ /\ fn = "multiply_in_place"
          /\ args \in [m : Matrices, x : Elems, y : Elems]

Inverse ==
    /\ fn = "inverse" /\ pc = "call"
    /\ Return(inverse(args.m))

Multiply ==
    /\ fn = "multiply" /\ pc = "call"
    /\ Return(Ok(multiply(args.m, args.v)))

MultiplyInPlace ==
    /\ fn = "multiply_in_place" /\ pc = "call"
    /\ Return(Ok(multiply_in_place(args.m, args.x, args.y)))

NextMatrix == Inverse \/ Multiply \/ MultiplyInPlace

SpecMatrix == InitMatrix /\ [][NextMatrix]_vars

(***************************************************************************)
(* ECFFT: parameters, precomputation, extend and evaluate-over-domain.     *)
(*                                                                         *)
(* The parameter set is the curve y^2 = x^3 + x + 2 over F_17 (24 points), *)
(* the coset Q + <h> with h = (4, 6) of order 8 and Q = (0, 6), and the    *)
(* tower of 2-isogenies whose kernels are the images of <4h>, <2h>, <h>.   *)
(* The coset is stored so that the two points a level's isogeny collapses  *)
(* are neighbours, which makes every leading prefix of length 2^j a        *)
(* sub-coset and every half of a level closed under the pairing.           *)
(***************************************************************************)
MaxCoef == 1     \* coefficients of the polynomials given to the ECFFT: 0..MaxCoef

LOG_N == 3
N == 2 ^ LOG_N

coset == <<0, 3, 15, 12, 13, 9, 11, 5>>

\* num_x and den_x of each isogeny, lowest coefficient first
isogenies ==
    << [num_x |-> <<4, 1, 1>>, den_x |-> <<1, 1>>],
       [num_x |-> <<8, 14, 1>>, den_x |-> <<14, 1>>],
       [num_x |-> <<3, 7, 1>>, den_x |-> <<7, 1>>] >>

RECURSIVE Log2(_)
Log2(n) == IF n <= 1 THEN 0 ELSE 1 + Log2(n \div 2)

IsPowerOfTwo(n) == n >= 1 /\ 2 ^ Log2(n) = n

\* the canonical sub-coset of size 2^(LOG_N - d): a leading prefix of the coset
sub_coset(d) == SubSeq(coset, 1, N \div (2 ^ d))

\* num_x(x) / den_x(x)
evaluate_x(iso, x) ==
    FDiv(horner_evaluate(iso.num_x, x), horner_evaluate(iso.den_x, x))

\* the matrix taking (P0(t), P1(t)) to (P(x0), P(x1)) for the two points
\* x0, x1 above t, where P(x) = (P0(phi(x)) + x * P1(phi(x))) * den_x(x)^q
pair_matrix(iso, x0, x1, q) ==
    LET v0 == FPow(horner_evaluate(iso.den_x, x0), q)
        v1 == FPow(horner_evaluate(iso.den_x, x1), q)
    IN << <<v0, FMul(x0, v0)>>, <<v1, FMul(x1, v1)>> >>

\* the coset taken whole
not_halved(L) == L

\* the two halves S and S' of a coset
first_half(L) == SubSeq(L, 1, Len(L) \div 2)
second_half(L) == SubSeq(L, (Len(L) \div 2) + 1, Len(L))

\* the level record of the coset L under the isogeny iso
level_record(L, iso) ==
    LET n == Len(L)
        s == first_half(L)
        s_prime == second_half(L)
        pairs == n \div 4
        q == pairs - 1
    IN [s |-> s,
        s_prime |-> s_prime,
        matrices |->
            [j \in 1..pairs |-> pair_matrix(iso, s_prime[2 * j - 1], s_prime[2 * j], q)],
        inverse_matrices |->
            [j \in 1..pairs |-> inverse(pair_matrix(iso, s[2 * j - 1], s[2 * j], q))]]

\* the image of one point of each pair: the next level's coset
next_coset(L, iso) == [j \in 1..(Len(L) \div 2) |-> evaluate_x(iso, L[2 * j - 1])]

\* every inversion and division of a level succeeded
level_ok(L, iso) ==
    /\ \A j \in 1..(Len(L) \div 2) : next_coset(L, iso)[j].tag = "ok"
    /\ \A j \in 1..(Len(L) \div 4) :
          level_record(L, iso).inverse_matrices[j].tag = "ok"

\* one iteration of the precomputation loop on the locals l = [L, i, steps]
precompute_iter(l) ==
    LET iso == isogenies[l.i + 1]
        rec == level_record(l.L, iso)
        nxt == next_coset(l.L, iso)
    IN IF ~level_ok(l.L, iso)
       THEN Panic("malformed parameters")
       ELSE Ok([L |-> [j \in 1..Len(nxt) |-> nxt[j].val],
                i |-> l.i + 1,
                steps |-> Append(l.steps,
                    [rec EXCEPT !.inverse_matrices =
                        [j \in 1..Len(rec.inverse_matrices) |->
                            rec.inverse_matrices[j].val]])])

precompute_enter(c) ==
    IF ~IsPowerOfTwo(Len(c)) \/ Log2(Len(c)) > Len(isogenies)
    THEN Panic("coset size")
    ELSE Ok([L |-> c, i |-> 0, steps |-> <<>>])

RECURSIVE precompute_loop(_, _)
precompute_loop(log_n, l) ==
    IF l.i >= log_n THEN Ok(l.steps)
    ELSE LET r == precompute_iter(l) IN
         IF r.tag = "panic" THEN r ELSE precompute_loop(log_n, r.val)

precompute_on_coset(c) ==
    LET e == precompute_enter(c) IN
    IF e.tag = "panic" THEN e ELSE precompute_loop(Log2(Len(c)), e.val)

\* precompute(): one coset precomputation per sub-coset of at least two
\* points; coset_precomputations[d + 1] is the one of sub_coset(d)
coset_precomputations ==
    [d \in 1..LOG_N |-> precompute_on_coset(sub_coset(d - 1)).val]

RECURSIVE extend(_, _)
\* from the values on the half s of the level with |s| = Len(evals), the
\* values on its other half s_prime
extend(steps, evals) ==
    LET n == Len(evals) IN
    IF n = 1 THEN evals
    ELSE LET step == steps[Len(steps) - Log2(n)]
             half == n \div 2
             red == [j \in 1..half |->
                       multiply(step.inverse_matrices[j],
                                <<evals[2 * j - 1], evals[2 * j]>>)]
             p0 == extend(steps, [j \in 1..half |-> red[j][1]])
             p1 == extend(steps, [j \in 1..half |-> red[j][2]])
             out == [j \in 1..half |-> multiply(step.matrices[j], <<p0[j], p1[j]>>)]
         IN [t \in 1..n |-> out[(t + 1) \div 2][2 - (t % 2)]]

\* extend with its precondition on the input length
extend_checked(steps, evals) ==
    IF ~IsPowerOfTwo(Len(evals)) \/ Len(evals) > Len(steps[1].s)
    THEN Panic("extend: input length")
    ELSE Ok(extend(steps, evals))

RECURSIVE evaluate_over_domain(_)
evaluate_over_domain(coeffs) ==
    LET n == Len(coeffs) IN
    IF n = 1 THEN <<coeffs[1]>>
    ELSE LET half == n \div 2
             steps == coset_precomputations[LOG_N - Log2(n) + 1]
             s == steps[1].s
             s_prime == steps[1].s_prime
             low == evaluate_over_domain(SubSeq(coeffs, 1, half))
             high == evaluate_over_domain(SubSeq(coeffs, half + 1, n))
             low_prime == extend(steps, low)
             high_prime == extend(steps, high)
         IN [t \in 1..n |->
                IF t <= half
                THEN GAdd(low[t], GMul(high[t], FPow(s[t], half)))
                ELSE GAdd(low_prime[t - half],
                          GMul(high_prime[t - half], FPow(s_prime[t - half], half)))]

evaluate_over_domain_checked(coeffs) ==
    IF ~IsPowerOfTwo(Len(coeffs)) \/ Len(coeffs) > N
    THEN Panic("evaluate_over_domain: polynomial length")
    ELSE Ok(evaluate_over_domain(coeffs))

(***************************************************************************)
(* Calls of the ECFFT functions.                                           *)
(***************************************************************************)
Coefs == 0..MaxCoef
Polys(n) == [1..n -> Coefs]

\* the values of the polynomial on the points, by Horner
naive_eval(coeffs, points) == [t \in 1..Len(points) |-> evaluate(coeffs, points[t])]

InitEcfft ==
    /\ pc = "call"
    /\ locals = NoLocals
    /\ ret = NoRet
    /\ \/ /\ fn = "precompute_on_coset"
          /\ \E d \in 0..LOG_N : args = [coset |-> sub_coset(d)]
       \/ /\ fn = "extend"
          /\ \E i \in 1..(LOG_N - 1) : \E c \in Polys(N \div (2 ^ i)) :
                args = [i |-> i, coeffs |-> c,
                        evals |-> naive_eval(c, coset_precomputations[1][i].s)]
       \/ /\ fn = "evaluate_over_domain"
          /\ \E j \in 0..LOG_N : args \in [coeffs : Polys(2 ^ j)]

PrecomputeEnter ==
    /\ fn = "precompute_on_coset" /\ pc = "call"
    /\ Enter(precompute_enter(args.coset))

PrecomputeIter ==
    /\ fn = "precompute_on_coset" /\ pc = "loop"
    /\ locals.i < Log2(Len(args.coset))
    /\ Iterate(precompute_iter(locals))

PrecomputeReturn ==
    /\ fn = "precompute_on_coset" /\ pc = "loop"
    /\ locals.i >= Log2(Len(args.coset))
    /\ Return(Ok(locals.steps))

Extend ==
    /\ fn = "extend" /\ pc = "call"
    /\ Return(extend_checked(coset_precomputations[1], args.evals))

EvaluateOverDomain ==
    /\ fn = "evaluate_over_domain" /\ pc = "call"
    /\ Return(evaluate_over_domain_checked(args.coeffs))

NextEcfft ==
    \/ PrecomputeEnter \/ PrecomputeIter \/ PrecomputeReturn
    \/ Extend \/ EvaluateOverDomain

SpecEcfft == InitEcfft /\ [][NextEcfft]_vars

(***************************************************************************)
(* The published parameter sets (bn254.rs, bls12_381.rs, curve25519.rs,    *)
(* ed25519sc.rs) and the test cases ecfft_tests! generates for them.       *)
(***************************************************************************)
RECURSIVE Shl(_, _)
\* x << k
Shl(x, k) == IF k = 0 THEN x ELSE Shl(2 * x, k - 1)

RECURSIVE Shr(_, _)
\* x >> k
Shr(x, k) == IF k = 0 THEN x ELSE Shr(x \div 2, k - 1)

\* the exponent named in the doc comment of the Ed25519 set
Ed25519_LOG_N_doc == 10

Bn254_LOG_N == 14
Bls12381_LOG_N == 15
Curve25519_LOG_N == 16
Ed25519_LOG_N == 15

Bn254EcFftParameters == [LOG_N |-> Bn254_LOG_N, N |-> Shl(1, Bn254_LOG_N)]
Bls12381Parameters == [LOG_N |-> Bls12381_LOG_N, N |-> Shl(1, Bls12381_LOG_N)]
Curve25519Parameters == [LOG_N |-> Curve25519_LOG_N, N |-> Shl(1, Curve25519_LOG_N)]
Ed25519EcFftParameters == [LOG_N |-> Ed25519_LOG_N, N |-> Shl(1, Ed25519_LOG_N)]

\* the last argument of each ecfft_tests! invocation
bn254_end_i == 14
bls12_381_end_i == 15
curve25519_end_i == 16
ed25519sc_end_i == 15
ed25519pt_end_i == 15

\* the start index of the tests on Ed25519 curve points
ed25519pt_start_i == 5

\* the ecfft_tests! invocations: name, parameter set, start_i, end_i
TestModules ==
    { [name |-> "bn254", set |-> "BN254", P |-> Bn254EcFftParameters,
       start_i |-> 0, end_i |-> bn254_end_i],
      [name |-> "bls12_381", set |-> "BLS12-381", P |-> Bls12381Parameters,
       start_i |-> 0, end_i |-> bls12_381_end_i],
      [name |-> "curve25519", set |-> "Curve25519", P |-> Curve25519Parameters,
       start_i |-> 0, end_i |-> curve25519_end_i],
      [name |-> "ed25519sc", set |-> "Ed25519", P |-> Ed25519EcFftParameters,
       start_i |-> 0, end_i |-> ed25519sc_end_i],
      [name |-> "ed25519pt", set |-> "Ed25519", P |-> Ed25519EcFftParameters,
       start_i |-> ed25519pt_start_i, end_i |-> ed25519pt_end_i] }

\* test_eval_i(i): the number of coefficients drawn and the sub-coset used
test_eval_i(t, i) == Ok([skipped |-> FALSE, n |-> Shr(t.P.N, i), sub_coset |-> i])

\* test_extend(i): skipped for i = 0, else the number of coefficients drawn
\* and the index of the level record used
test_extend(t, i) ==
    IF i = 0 THEN Ok([skipped |-> TRUE])
    ELSE Ok([skipped |-> FALSE, n |-> Shr(t.P.N, i), step |-> i - 1])

\* seq!(N in $start_i..$end_i): one test case per index
InitParams ==
    /\ pc = "call"
    /\ locals = NoLocals
    /\ ret = NoRet
    /\ fn \in {"test_eval_i", "test_extend"}
    /\ \E t \in TestModules : \E i \in t.start_i..(t.end_i - 1) :
          args = [module |-> t, i |-> i]

TestEvalI ==
    /\ fn = "test_eval_i" /\ pc = "call"
    /\ Return(test_eval_i(args.module, args.i))

TestExtend ==
    /\ fn = "test_extend" /\ pc = "call"
    /\ Return(test_extend(args.module, args.i))

NextParams == TestEvalI \/ TestExtend

SpecParams == InitParams /\ [][NextParams]_vars

(***************************************************************************)
(* The whole library: any one call.                                        *)
(***************************************************************************)
Init == InitPoly \/ InitVand \/ InitMatrix \/ InitEcfft \/ InitParams
Next == NextPoly \/ NextVand \/ NextMatrix \/ NextEcfft \/ NextParams
Spec == Init /\ [][Next]_vars

Returned == pc \in {"done", "panic"}

\* two calls end the same way: both panic, or both return the same value
SameOutcome(r1, r2) == r1.tag = r2.tag /\ (r1.tag = "ok" => r1.val = r2.val)

AllZero(c) == \A i \in 1..Len(c) : c[i] = 0

(***************************************************************************)
(* Properties of the Vandermonde functions.                                *)
(***************************************************************************)
RECURSIVE VandermondeEntry(_, _, _, _)
\* sum over i in 1..n of v[i] * points[i]^j
VandermondeEntry(v, points, j, n) ==
    IF n = 0 THEN 0
    ELSE (VandermondeEntry(v, points, j, n - 1) + v[n] * FPow(points[n], j)) % P

VandermondeProduct(v, points, nb_cols) ==
    [c \in 1..nb_cols |-> VandermondeEntry(v, points, c - 1, Len(points))]

\* C3: for all sizes n >= 0 and m >= 0, points in F^n and v in G^n,
\* left_multiply returns the vector u of length m with
\* u[j] = sum_i v[i] * points[i]^j.
C3_LeftMultiplyIsProduct ==
    (fn = "left_multiply" /\ Returned /\ Len(args.points) = Len(args.vector))
        => ret = Ok(VandermondeProduct(args.vector, args.points, args.nb_cols))

\* The same for matrices with at least one row (the case the code handles).
LeftMultiplyIsProductNonEmpty ==
    (fn = "left_multiply" /\ Returned /\ Len(args.points) = Len(args.vector)
        /\ Len(args.points) >= 1)
        => ret = Ok(VandermondeProduct(args.vector, args.points, args.nb_cols))

\* the points of smallest_range(n), each mapped into F
SmallPointsAsF(n) == [i \in 1..n |-> FromI32(smallest_range(n).val[i])]

\* C4 as stated: for every vector v (of any length n) and every column
\* count m, small_vandermonde_left_multiply(v, m) ends as left_multiply
\* does on the points smallest_range(n) mapped into F.
C4_SmallEqualsGeneralAnyLength ==
    (fn = "small_vandermonde_left_multiply" /\ Returned)
        => SameOutcome(ret, left_multiply(SmallPointsAsF(Len(args.vector)),
                                          args.nb_cols, args.vector))

\* C4 amended: for every vector v of length n >= 1 and every column count m,
\* small_vandermonde_left_multiply(v, m) returns what left_multiply returns
\* on the points smallest_range(n) mapped into F, and for n = 1 that is
\* u[0] = v[0] and u[j] = 0 for j >= 1; for n = 0 it panics on its
\* assertion nb_rows > 0.
C4_SmallEqualsGeneral ==
    (fn = "small_vandermonde_left_multiply" /\ Returned)
        => IF Len(args.vector) >= 1
           THEN /\ ret.tag = "ok"
                /\ ret = left_multiply(SmallPointsAsF(Len(args.vector)),
                                       args.nb_cols, args.vector)
                /\ Len(args.vector) = 1 =>
                      \A c \in 1..args.nb_cols :
                          ret.val[c] = IF c = 1 THEN args.vector[1] ELSE 0
           ELSE ret.tag = "panic"

\* a call with a negative point, the zero point and a positive point, whose
\* odd and even columns have both been emitted
C4_Witness ==
    /\ fn = "small_vandermonde_left_multiply" /\ pc = "done"
    /\ Len(args.vector) = 4 /\ args.nb_cols = 3
    /\ \A i \in 1..4 : args.vector[i] # 0
    /\ ret.val[2] # ret.val[3]

(***************************************************************************)
(* Properties of the polynomial functions.                                 *)
(***************************************************************************)
RECURSIVE PolySumTo(_, _, _)
\* sum over i in 1..n of c[i] * x^(i-1)
PolySumTo(c, x, n) ==
    IF n = 0 THEN 0 ELSE (PolySumTo(c, x, n - 1) + c[n] * FPow(x, n - 1)) % P

PolySum(c, x) == PolySumTo(c, x, Len(c))

\* C5: for every coefficient vector and every i32 point p, both ends of the
\* i32 range included, evaluate_small(p) returns what evaluate(F::from(p))
\* returns.
C5_SmallEqualsEvaluate ==
    (fn = "evaluate_small" /\ Returned)
        => ret = Ok(evaluate(args.coeffs, FromI32(args.point)))

\* The same for every point but i32::MIN.
SmallEqualsEvaluateAboveMin ==
    (fn = "evaluate_small" /\ Returned /\ args.point # I32Min)
        => ret = Ok(evaluate(args.coeffs, FromI32(args.point)))

\* C6: for every coefficient vector c (empty, all-zero, with trailing
\* zeros) and every point x of F (zero included), evaluate(x) returns the
\* sum over i of c[i] * x^i; the zero polynomial gives zero and x = 0
\* gives c[0].
C6_EvaluateIsSum ==
    (fn = "evaluate" /\ Returned)
        => /\ ret = Ok(PolySum(args.coeffs, args.point))
           /\ AllZero(args.coeffs) => ret = Ok(0)
           /\ (args.point = 0 /\ Len(args.coeffs) > 0) => ret = Ok(args.coeffs[1])

\* a non-zero polynomial with a trailing zero coefficient, evaluated at a
\* non-zero point
C6_Witness ==
    /\ fn = "evaluate" /\ pc = "done"
    /\ Len(args.coeffs) = 3 /\ args.coeffs[3] = 0 /\ args.coeffs[2] # 0
    /\ args.point # 0
    /\ ret.val # args.coeffs[1]

\* C8: for n >= 0 smallest_range(n) returns the n consecutive integers from
\* -floor((n-1)/2) to floor(n/2) in increasing order, with 0 at index
\* floor((n-1)/2); for n < 0 it panics.
C8_SmallestRange ==
    (fn = "smallest_range" /\ Returned)
        => IF args.n < 0
           THEN pc = "panic"
           ELSE /\ pc = "done"
                /\ Len(ret.val) = args.n
                /\ \A i \in 1..(args.n - 1) : ret.val[i + 1] = ret.val[i] + 1
                /\ args.n >= 1 =>
                      /\ ret.val[1] = -((args.n - 1) \div 2)
                      /\ ret.val[args.n] = args.n \div 2
                      /\ ret.val[((args.n - 1) \div 2) + 1] = 0

\* the range of an even n >= 4, which is not symmetric about zero
C8_Witness ==
    /\ fn = "smallest_range" /\ pc = "done"
    /\ args.n = 8
    /\ ret.val = <<-3, -2, -1, 0, 1, 2, 3, 4>>

\* C10 as stated: degree() returns len - 1 for a non-zero polynomial and 0
\* for a zero polynomial, and panics for every non-empty coefficient vector
\* whose last coefficient is zero.
C10_DegreeAssertsNonEmpty ==
    (fn = "degree" /\ Returned)
        => LET c == args.coeffs IN
           /\ (Len(c) > 0 /\ c[Len(c)] = 0) => pc = "panic"
           /\ (Len(c) > 0 /\ c[Len(c)] # 0) => ret = Ok(Len(c) - 1)
           /\ Len(c) = 0 => ret = Ok(0)

\* C10 amended: degree() returns 0 for a zero polynomial (an empty or
\* all-zero vector, without asserting), len - 1 for a vector whose last
\* coefficient is non-zero, and panics for every vector that is not all-zero
\* and whose last coefficient is zero.
C10_DegreeAssertsNonZero ==
    (fn = "degree" /\ Returned)
        => LET c == args.coeffs IN
           /\ AllZero(c) => ret = Ok(0)
           /\ (Len(c) > 0 /\ c[Len(c)] # 0) => ret = Ok(Len(c) - 1)
           /\ (~AllZero(c) /\ c[Len(c)] = 0) => pc = "panic"

\* a non-zero polynomial with a trailing zero coefficient: the assertion fires
C10_Witness ==
    /\ fn = "degree" /\ pc = "panic"
    /\ Len(args.coeffs) = 3 /\ args.coeffs[1] # 0 /\ args.coeffs[3] = 0

(***************************************************************************)
(* Properties of the matrices.                                             *)
(***************************************************************************)
Det(m) == (m[1][1] * m[2][2] + (P - 1) * m[1][2] * m[2][1]) % P

\* C7: for every matrix M with non-zero determinant and every pair v of
\* G^2, M.multiply(M.inverse().multiply(v)) = v and
\* M.inverse().multiply(M.multiply(v)) = v.
C7_InverseRoundTrip ==
    (fn = "inverse" /\ Returned /\ Det(args.m) # 0)
        => /\ pc = "done"
           /\ \A v \in F \X F :
                 /\ multiply(args.m, multiply(ret.val, v)) = v
                 /\ multiply(ret.val, multiply(args.m, v)) = v

\* the inverse of a matrix with no zero entry
C7_Witness ==
    /\ fn = "inverse" /\ pc = "done"
    /\ \A i \in 1..2, k \in 1..2 : args.m[i][k] # 0
    /\ ret.val # args.m

(***************************************************************************)
(* ECFFT                                                                   *)
(***************************************************************************)
\* C9: the precomputation of a coset of 2^k points returns exactly k level
\* records, the halves of level i have 2^(k-i-1) points each, and the coset
\* left after the last level has exactly one point.
C9_PrecomputationShape ==
    (fn = "precompute_on_coset" /\ Returned) =>
        LET k == Log2(Len(args.coset)) IN
        /\ ret.tag = "ok"
        /\ Len(ret.val) = k
        /\ \A i \in 0..(k - 1) :
              /\ Len(ret.val[i + 1].s) = 2 ^ (k - i - 1)
              /\ Len(ret.val[i + 1].s_prime) = 2 ^ (k - i - 1)
        /\ Len(locals.L) = 1

\* the precomputation of the full coset has returned
C9_Witness ==
    /\ fn = "precompute_on_coset" /\ Returned
    /\ args.coset = coset
    /\ Len(ret.val) = LOG_N
    /\ Len(ret.val[1].matrices) = 2

LengthCheckPanic == Panic("assertion failed: points.len() == vector.len()")

\* C11: left_multiply aborts before producing any output entry whenever the
\* vector's length differs from the number of points, and with equal lengths
\* it never aborts on the length check.
C11_LengthCheck ==
    (fn = "left_multiply" /\ pc # "call") =>
        IF Len(args.points) # Len(args.vector)
        THEN pc = "panic" /\ ret = LengthCheckPanic /\ locals = NoLocals
        ELSE ret # LengthCheckPanic

\* a call with one point and two vector entries has panicked
C11_Witness ==
    /\ fn = "left_multiply" /\ pc = "panic"
    /\ Len(args.points) = 1 /\ Len(args.vector) = 2
    /\ args.nb_cols > 0

\* the inverse of det in F, found by search
InvDet(m) == CHOOSE k \in F : (k * Det(m)) % P = 1

\* (1/det) * [[d, -b], [-c, a]]
ScaledAdjugate(m) ==
    LET k == InvDet(m) IN
    << <<(k * m[2][2]) % P, (k * (P - m[1][2])) % P>>,
       <<(k * (P - m[2][1])) % P, (k * m[1][1]) % P>> >>

\* C12: Matrix::inverse on [[a, b], [c, d]] returns (1/det) * [[d, -b], [-c, a]]
\* with det = a*d - b*c when det # 0, and panics, returning no matrix, when
\* det = 0.
C12_InverseOrPanic ==
    (fn = "inverse" /\ Returned) =>
        IF Det(args.m) = 0
        THEN pc = "panic" /\ ret.tag = "panic"
        ELSE pc = "done" /\ ret = Ok(ScaledAdjugate(args.m))

\* a singular matrix with no zero entry has been rejected
C12_Witness ==
    /\ fn = "inverse" /\ pc = "panic"
    /\ Det(args.m) = 0
    /\ \A i \in 1..2, k \in 1..2 : args.m[i][k] # 0

(***************************************************************************)
(* Frame                                                                   *)
(***************************************************************************)
EvaluationFns ==
    {"left_multiply", "small_vandermonde_left_multiply", "evaluate", "evaluate_small"}

\* C13: no step of left_multiply, small_vandermonde_left_multiply, evaluate
\* or evaluate_small changes the caller's vector, the matrix points or the
\* polynomial coefficients: the in-place updates go to the callee's own copy.
C13_InputsNotMutated == [][(fn \in EvaluationFns) => (args' = args)]_vars

\* a call has returned after its working column was updated in place
C13_Witness ==
    /\ fn \in {"left_multiply", "small_vandermonde_left_multiply"}
    /\ pc = "done"
    /\ IF fn = "left_multiply" THEN locals.col # args.vector
       ELSE locals.abs_col # args.vector

(***************************************************************************)
(* Parameter sets                                                          *)
(***************************************************************************)
\* the LOG_N the specification lists for each parameter set
ListedLogN(set) ==
    CASE set = "BN254" -> 14
      [] set = "BLS12-381" -> 15
      [] set = "Curve25519" -> 16
      [] set = "Ed25519" -> 15

RECURSIVE SumTo(_, _)
\* c[1] + ... + c[n] in G
SumTo(c, n) == IF n = 0 THEN 0 ELSE (SumTo(c, n - 1) + c[n]) % P

\* C15: in left_multiply the working column starts as a copy of vector, and
\* once output entry j has been emitted col[i] = vector[i] * points[i]^j for
\* every row i (one multiplication by points[i] per step after the first)
\* and res[j] is the sum of the col[i] of that step.
C15_ColumnInvariant ==
    (fn = "left_multiply" /\ locals # NoLocals) =>
        /\ Len(locals.res) = locals.j
        /\ IF locals.j = 0
           THEN locals.col = args.vector
           ELSE /\ \A i \in 1..locals.nb_rows :
                      locals.col[i] =
                          (args.vector[i] * FPow(args.points[i], locals.j - 1)) % P
                /\ locals.res[locals.j] = SumTo(locals.col, locals.nb_rows)
        /\ \A c \in 1..locals.j :
              locals.res[c] = VandermondeEntry(args.vector, args.points, c - 1,
                                               locals.nb_rows)

\* the third entry of a product with two rows has been emitted
C15_Witness ==
    /\ fn = "left_multiply" /\ pc = "loop"
    /\ locals.j = 3 /\ locals.nb_rows = 2
    /\ \A i \in 1..2 : args.points[i] \notin {0, 1} /\ args.vector[i] # 0
    /\ locals.col # args.vector

\* |d| for an integer d
Abs(d) == IF d < 0 THEN -d ELSE d

\* the contribution of row i (the source's index, from 0) to res[j]:
\* nothing for the zero point unless j = 0, minus for a negative point and
\* odd j, plus otherwise
SignedTerm(v, zero_i, i, j) ==
    LET mag == (v[i + 1] * FPow(Abs(i - zero_i) % P, j)) % P IN
    IF i = zero_i THEN (IF j = 0 THEN v[i + 1] ELSE 0)
    ELSE IF i < zero_i /\ j % 2 = 1 THEN (P - mag) % P
    ELSE mag

RECURSIVE SignedSum(_, _, _, _)
\* the sum of the contributions of rows 0..n-1
SignedSum(v, zero_i, j, n) ==
    IF n = 0 THEN 0
    ELSE (SignedSum(v, zero_i, j, n - 1) + SignedTerm(v, zero_i, n - 1, j)) % P

\* C16: in small_vandermonde_left_multiply, with zero_i = floor((n-1)/2),
\* after column step j abs_col[i] = vector[i] * |i - zero_i|^j for i # zero_i
\* and abs_col[zero_i] = vector[zero_i]; res[j] adds the zero point's entry
\* only for j = 0, subtracts the entries with i < zero_i exactly when j is
\* odd, and adds all the others.
C16_AbsColumnInvariant ==
    (fn = "small_vandermonde_left_multiply" /\ locals # NoLocals) =>
        LET n == Len(args.vector)
            zero_i == (n - 1) \div 2
        IN /\ locals.zero_i = zero_i
           /\ Len(locals.res) = locals.j
           /\ locals.abs_col[zero_i + 1] = args.vector[zero_i + 1]
           /\ \A i \in (0..(n - 1)) \ {zero_i} :
                 locals.abs_col[i + 1] =
                     IF locals.j = 0 THEN args.vector[i + 1]
                     ELSE (args.vector[i + 1]
                            * FPow(Abs(i - zero_i) % P, locals.j - 1)) % P
           /\ \A c \in 1..locals.j :
                 locals.res[c] = SignedSum(args.vector, zero_i, c - 1, n)

\* three columns of a product with four rows (points -1, 0, 1, 2)
C16_Witness ==
    /\ fn = "small_vandermonde_left_multiply" /\ pc = "loop"
    /\ locals.j = 3 /\ Len(args.vector) = 4
    /\ \A i \in 1..4 : args.vector[i] # 0
    /\ locals.res[2] # locals.res[1]

(***************************************************************************)
(* Matrix products                                                         *)
(***************************************************************************)
\* [a*x + b*y, c*x + d*y] for m = [[a, b], [c, d]]
RowMajorProduct(m, x, y) ==
    << (m[1][1] * x + m[1][2] * y) % P, (m[2][1] * x + m[2][2] * y) % P >>

\* C17: for every matrix [[a, b], [c, d]] over F and every pair (x, y) of
\* G^2, multiply([x, y]) returns [a*x + b*y, c*x + d*y]: the row-major matrix
\* applied to the column vector, not its transpose.
C17_MultiplyRowMajor ==
    (fn = "multiply" /\ Returned) =>
        ret = Ok(RowMajorProduct(args.m, args.v[1], args.v[2]))

\* a product by a matrix that is not symmetric, on a pair that tells it
\* from its transpose
C17_Witness ==
    /\ fn = "multiply" /\ pc = "done"
    /\ args.m[1][2] # args.m[2][1]
    /\ args.v[1] # 0 /\ args.v[2] # 0
    /\ ret.val # multiply_transposed(args.m, args.v)

\* C18: multiply_in_place(&mut x, &mut y) leaves (x, y) equal to
\* multiply([x_old, y_old]): both outputs are computed from the original x
\* and y, the new x is never used for the new y.
C18_InPlaceIsMultiply ==
    (fn = "multiply_in_place" /\ Returned) =>
        /\ pc = "done"
        /\ <<ret.val.x, ret.val.y>> = RowMajorProduct(args.m, args.x, args.y)
        /\ <<ret.val.x, ret.val.y>> = multiply(args.m, <<args.x, args.y>>)

\* a call where using the new x for the new y would have changed y
C18_Witness ==
    /\ fn = "multiply_in_place" /\ pc = "done"
    /\ args.m[2][1] # 0
    /\ ret.val.x # args.x
    /\ ret.val # multiply_in_place_sequential(args.m, args.x, args.y)

(***************************************************************************)
(* Termination and output length of the Vandermonde functions              *)
(***************************************************************************)
VandermondeFns == {"left_multiply", "small_vandermonde_left_multiply"}

\* C19 as stated: for every input vector of length n >= 1 and every nb_cols,
\* left_multiply and small_vandermonde_left_multiply return a vector of
\* exactly nb_cols entries.
C19_ReturnsNbColsAnyMatrix ==
    (fn \in VandermondeFns /\ Len(args.vector) >= 1 /\ Returned) =>
        pc = "done" /\ Len(ret.val) = args.nb_cols

\* a vector of length n >= 1 and, for left_multiply, a matrix of n points
NonEmptyMatching ==
    /\ fn \in VandermondeFns
    /\ Len(args.vector) >= 1
    /\ fn = "left_multiply" => Len(args.points) = Len(args.vector)

\* one column step: res grows by exactly one entry, at index j
OneEntryPerStep ==
    (NonEmptyMatching /\ pc = "loop" /\ pc' = "loop") =>
        /\ Len(locals.res) = locals.j
        /\ locals'.j = locals.j + 1
        /\ Len(locals'.res) = locals.j + 1
        /\ SubSeq(locals'.res, 1, locals.j) = locals.res

\* C19 amended: for every input vector of length n >= 1 (with, for
\* left_multiply, a matrix of exactly n points) and every nb_cols >= 0, both
\* functions terminate and return a vector of exactly nb_cols entries,
\* appending exactly one entry per column step j = 0, ..., nb_cols-1 in order.
C19_TerminatesWithNbCols ==
    /\ [](NonEmptyMatching => <>(pc = "done"))
    /\ []((NonEmptyMatching /\ Returned) =>
            (pc = "done" /\ Len(ret.val) = args.nb_cols /\ locals.j = args.nb_cols))
    /\ [][OneEntryPerStep]_vars

\* calls of both functions returned after the last of MaxCols column steps,
\* and one with no column at all
C19_Witness ==
    /\ NonEmptyMatching /\ pc = "done"
    /\ \/ args.nb_cols = MaxCols /\ Len(ret.val) = MaxCols /\ Len(args.vector) = 2
       \/ args.nb_cols = 0 /\ ret.val = <<>>

====
